---- MODULE Spec2Model ----
(***************************************************************************)
(* A model of nnrecommend's interaction dataset                            *)
(* (src/nnrecommend/dataset/__init__.py) and of the loading pipeline of    *)
(* SpotifyDatasetSource (src/nnrecommend/dataset/spotify.py), followed by  *)
(* save_model and the recommend command (src/nnrecommend/cli/recommend.py).*)
(* SpecSampling runs add_negative_sampling draw by draw, under fairness.   *)
(*                                                                         *)
(* A table is a sequence of rows; a row is a sequence of integers          *)
(* (user, item, context..., label).  Python's 0-based column and array     *)
(* indices are kept as VALUES (ids, idrange entries, positions returned by *)
(* bisect); TLA+ sequences are 1-based, so element k of a Python array is  *)
(* element k+1 of the sequence that models it.                             *)
(***************************************************************************)
EXTENDS Integers, Sequences, FiniteSets, TLC

VARIABLES
    interactions,   \* Dataset.__interactions of the dataset under work (the trainset)
    idrange,        \* Dataset.idrange: None, or one cumulative bound per entity column
    ncols,          \* interactions.shape[1]: entity columns plus the label column
    mapping,        \* the mapping most recently returned by normalize_ids
    matrix,         \* the adjacency matrix most recently built (BaseDatasetSource.matrix)
    testset,        \* the Dataset most recently returned by extract_test_dataset
    last,           \* history: the last call, its arguments, the table before it, its result
    normby,         \* history: how the table got its ids ("none": raw, "auto":
                    \* normalize_ids(), "explicit": normalize_ids(mapping))
    ncalls,         \* calls made so far on the dataset
    pc,             \* "api": calls in any order; otherwise the position inside load
    ci, cu,         \* load's locals: rows dropped by remove_low_items / remove_low_users
    trace,          \* history: the calls load has made on the trainset, in order
    file,           \* the record save_model wrote, None before
    result,         \* what the recommend command did with the file, None before
    sampling        \* the locals of a running add_negative_sampling, None otherwise

vars == <<interactions, idrange, ncols, mapping, matrix, testset, last, normby, ncalls,
          pc, ci, cu, trace, file, result, sampling>>

-----------------------------------------------------------------------------
(* Bounds of the model *)

\* rows of a freshly constructed table
MaxRows == 3
\* largest num passed to add_negative_sampling
MaxNum == 2
\* add_negative_sampling is only called when the resulting table has at most this many rows
MaxTable == 6
\* largest lim passed to remove_low_users / remove_low_items / remove_low
MaxLim == 1
\* largest num_user_interactions / min_keep_user_interactions passed to extract_test_dataset
MaxExtract == 2
\* calls made on a dataset after its construction
MaxCalls == 2

\* the thresholds of spotify.py
MIN_ITEM_INTERACTIONS == 1
MIN_USER_INTERACTIONS == 3

\* raw identifiers found in the input, per column (the columns share some raw ids)
RawUsers == {3, 5}
RawItems == {3, 5, 8}
RawContext == {0, 5}

\* explicit mappings handed to normalize_ids: each column's sorted raw ids, complete
\* or with one raw id missing (the last, a middle and the first one respectively)
UserMappings == {<<3, 5>>, <<3>>}
ItemMappings == {<<3, 5, 8>>, <<3, 8>>}
ContextMappings == {<<0, 5>>, <<5>>}

-----------------------------------------------------------------------------
(* Values *)

\* Python's None (idrange of a dataset that is not normalized; an unset field)
None == << >>

\* a matrix is its dimension and the set of index pairs holding 1
NoMatrix == [size |-> -1, entries |-> {}]

\* the history of a call: its name, the table and idrange it found, the normalized
\* table it worked on (after "if self.idrange is None: self.normalize_ids()"), its
\* arguments, what it returned, and the name of the call before it
Call(before, op, pre, preid, npre, arg, ret) ==
    [op |-> op, pre |-> pre, preid |-> preid, npre |-> npre, arg |-> arg, ret |-> ret,
     prevop |-> before.op]

NoCall ==
    [op |-> "init", pre |-> << >>, preid |-> None, npre |-> << >>, arg |-> << >>,
     ret |-> << >>, prevop |-> "init"]

-----------------------------------------------------------------------------
(* Helpers on sequences *)

Min(S) == CHOOSE x \in S : \A y \in S : x <= y

RECURSIVE SortedSeq(_)
\* the elements of a finite set of integers in ascending order: np.sort(np.unique(ids))
SortedSeq(S) ==
    IF S = {} THEN << >>
    ELSE LET m == Min(S) IN <<m>> \o SortedSeq(S \ {m})

\* the rows at the given positions (1-based), in the order the positions are listed
RowsAt(rows, idxs) == [k \in 1..Len(idxs) |-> rows[idxs[k]]]

\* the rows whose position is in keep, in table order: rows[cond] / np.delete
KeepRows(rows, keep) == RowsAt(rows, SortedSeq(keep))

\* the values of (1-based) column c
Column(rows, c) == {rows[k][c] : k \in 1..Len(rows)}

RECURSIVE SeqSum(_)
SeqSum(s) == IF s = << >> THEN 0 ELSE Head(s) + SeqSum(Tail(s))

-----------------------------------------------------------------------------
(* normalize_ids / denormalize_ids *)

RECURSIVE bisect_left(_, _, _, _)
\* bisect.bisect_left(container, val): binary search between lo and hi (0-based)
bisect_left(container, val, lo, hi) ==
    IF lo < hi
    THEN LET mid == (lo + hi) \div 2 IN
         IF container[mid + 1] < val
         THEN bisect_left(container, val, mid + 1, hi)
         ELSE bisect_left(container, val, lo, mid)
    ELSE lo

\* find of normalize_ids counting positions from one
find_normalize_from_one(container, val) ==
    LET idx == bisect_left(container, val, 0, Len(container)) IN
    IF idx < 0 \/ idx >= Len(container) \/ container[idx + 1] # val
    THEN -1
    ELSE idx + 1

\* find of normalize_ids: the position of val in the sorted container, or -1
find_normalize(container, val) ==
    LET idx == bisect_left(container, val, 0, Len(container)) IN
    IF idx < 0 \/ idx >= Len(container) \/ container[idx + 1] # val
    THEN -1
    ELSE idx

\* find of denormalize_ids: the raw id at position val, or -1
find_denormalize(container, val) ==
    IF val < 0 \/ val >= Len(container) THEN -1 ELSE container[val + 1]

\* diff when column i (1-based) is processed: the lengths of the mappings before it
Diff(m, i) == SeqSum([j \in 1..(i - 1) |-> Len(m[j])])

\* self.__interactions[cond] with cond = (interactions[:, :2] >= 0).all(axis=1)
remove_negative_ids(rows) ==
    KeepRows(rows, {k \in 1..Len(rows) : rows[k][1] >= 0 /\ rows[k][2] >= 0})

\* the mapping normalize_ids computes when none is given
unique_mapping(rows, n) == [i \in 1..(n - 1) |-> SortedSeq(Column(rows, i))]

\* normalize_value with the offset of the column forgotten
normalize_value_without_diff(m, i, v) == find_normalize(m[i], v)

\* the new value of column i of a row under normalize_ids
normalize_value(m, i, v) == find_normalize(m[i], v) + Diff(m, i)

\* normalize_ids(mapping, remove_missing) on a table of n columns
normalize_ids(rows, n, m, remove_missing) ==
    LET mapped == [k \in 1..Len(rows) |->
                     [i \in 1..n |-> IF i < n THEN normalize_value(m, i, rows[k][i])
                                     ELSE rows[k][i]]]
    IN [interactions |-> IF remove_missing THEN remove_negative_ids(mapped) ELSE mapped,
        idrange      |-> [i \in 1..Len(m) |-> Diff(m, i + 1)],
        mapping      |-> m]

\* denormalize_value with the offset of the column left in
denormalize_value_without_diff(m, i, v) == find_denormalize(m[i], v)

\* the new value of column i of a row under denormalize_ids
denormalize_value(m, i, v) == find_denormalize(m[i], v - Diff(m, i))

\* denormalize_ids(mapping, remove_missing) on a table of n columns
denormalize_ids(rows, n, m, remove_missing) ==
    LET mapped == [k \in 1..Len(rows) |->
                     [i \in 1..n |-> IF i < n THEN denormalize_value(m, i, rows[k][i])
                                     ELSE rows[k][i]]]
    IN [interactions |-> IF remove_missing THEN remove_negative_ids(mapped) ELSE mapped,
        idrange      |-> None]

\* "if self.idrange is None: self.normalize_ids()" at the head of several methods
ensure_normalized(rows, n, idr) ==
    IF idr = None
    THEN normalize_ids(rows, n, unique_mapping(rows, n), TRUE)
    ELSE [interactions |-> rows, idrange |-> idr, mapping |-> << >>]


-----------------------------------------------------------------------------
(* Negative sampling *)

RECURSIVE random_columns(_, _, _)
\* the loop of get_random_negative_row from column i (1-based) on: every draw
\* np.random.randint(minv, maxv) can return that is accepted (v != row[i]),
\* followed by the label, which np.zeros leaves at 0
random_columns(row, idr, i) ==
    IF i > Len(idr) THEN {<<0>>}
    ELSE {<<v>> \o t : v \in (idr[i - 1]..(idr[i] - 1)) \ {row[i]},
                       t \in random_columns(row, idr, i + 1)}

\* get_random_negative_row redrawing the item only and copying the context columns
get_random_negative_row_item_only(row, idr) ==
    {<<row[1], v>> \o SubSeq(row, 3, Len(idr)) \o <<0>> :
        v \in (idr[1]..(idr[2] - 1)) \ {row[2]}}

\* get_random_negative_row(row): the rows it can return
get_random_negative_row(row, idr) ==
    {<<row[1]>> \o t : t \in random_columns(row, idr, 2)}

\* __row_comb_in_container looking only at the pairs that leave the user out
row_comb_in_container_without_user(row, container) ==
    \E i, j \in 2..(Len(row) - 1) : i < j /\ <<row[i], row[j]>> \in container

\* __row_comb_in_container: some pair of the row's entity values is in container
row_comb_in_container(row, container) ==
    \E i, j \in 1..(Len(row) - 1) : i < j /\ <<row[i], row[j]>> \in container

\* get_random_negative_rows(container, row, num): the arrays of num rows it can return
get_random_negative_rows(container, row, num, idr) ==
    [1..num -> {nrow \in get_random_negative_row(row, idr) :
                    ~row_comb_in_container(nrow, container)}]

RECURSIVE add_negative_sampling(_, _, _, _)
\* add_negative_sampling(container, num), num > 0: the tables it can leave
add_negative_sampling(rows, idr, container, num) ==
    IF rows = << >> THEN {<< >>}
    ELSE {<<Head(rows)>> \o nrows \o rest :
            nrows \in get_random_negative_rows(container, Head(rows), num, idr),
            rest \in add_negative_sampling(Tail(rows), idr, container, num)}

-----------------------------------------------------------------------------
(* Test set extraction *)

\* positions (1-based) of the rows with a positive label
positive_rows(rows, n) == {k \in 1..Len(rows) : rows[k][n] > 0}

\* rowsbyuser[u]: the positions of user u's positive rows, ascending
rowsbyuser(rows, n, u) == SortedSeq({k \in positive_rows(rows, n) : rows[k][1] = u})

\* the keys of rowsbyuser in insertion order: users by their first positive row
rowsbyuser_keys(rows, n) ==
    LET firsts == {Min({k \in positive_rows(rows, n) : rows[k][1] = rows[j][1]}) :
                     j \in positive_rows(rows, n)}
    IN [k \in 1..Cardinality(firsts) |-> rows[SortedSeq(firsts)[k]][1]]

\* Python's s[-n:]
slice_last(s, n) ==
    IF n = 0 THEN s
    ELSE SubSeq(s, (IF Len(s) - n > 0 THEN Len(s) - n ELSE 0) + 1, Len(s))

\* the threshold of extract_test_dataset looking at min_keep_user_interactions only
too_few_to_keep(userrows, num_user_interactions, min_keep_user_interactions) ==
    Len(userrows) < min_keep_user_interactions

\* if len(userrows) < num_user_interactions + min_keep_user_interactions: continue
too_few(userrows, num_user_interactions, min_keep_user_interactions) ==
    Len(userrows) < num_user_interactions + min_keep_user_interactions

RECURSIVE extracted_rows(_, _, _, _, _)
\* the list "rows" built by the second loop of extract_test_dataset
extracted_rows(rows, n, keys, num_user_interactions, min_keep_user_interactions) ==
    IF keys = << >> THEN << >>
    ELSE LET userrows == rowsbyuser(rows, n, Head(keys)) IN
         (IF too_few(userrows, num_user_interactions, min_keep_user_interactions)
          THEN << >>
          ELSE slice_last(userrows, num_user_interactions))
         \o extracted_rows(rows, n, Tail(keys), num_user_interactions,
                           min_keep_user_interactions)

\* extract_test_dataset on a normalized table: what stays and what is returned
extract_test_dataset(rows, n, num_user_interactions, min_keep_user_interactions) ==
    LET moved == extracted_rows(rows, n, rowsbyuser_keys(rows, n),
                                num_user_interactions, min_keep_user_interactions)
    IN [interactions |-> KeepRows(rows, (1..Len(rows)) \ {moved[k] : k \in 1..Len(moved)}),
        testset      |-> RowsAt(rows, moved),
        rows         |-> moved]

-----------------------------------------------------------------------------
(* Adjacency matrix and low-degree filtering *)

\* a value usable as a row or column index of a matrix of dimension size
valid_index(v, size) == 0 <= v /\ v < size

\* the dimension create_adjacency_matrix gives the matrix
matrix_size(idr) == idr[2]

\* create_adjacency_matrix setting matrix[user, item] only
create_adjacency_matrix_one_way(rows, idr) ==
    [size    |-> matrix_size(idr),
     entries |-> {<<rows[k][1], rows[k][2]>> : k \in 1..Len(rows)}]

\* create_adjacency_matrix on a normalized table
create_adjacency_matrix(rows, idr) ==
    [size    |-> matrix_size(idr),
     entries |-> UNION {{<<rows[k][1], rows[k][2]>>, <<rows[k][2], rows[k][1]>>} :
                          k \in 1..Len(rows)}]

\* counts[j] of __remove_low: the sum of column j of the matrix
column_sum(m, j) == Cardinality({a \in 0..(m.size - 1) : <<a, j>> \in m.entries})

\* cond of __remove_low with >= in place of >
keeps_at_limit(m, lim, id) == column_sum(m, id) >= lim

\* cond of __remove_low for one id
keeps(m, lim, id) == column_sum(m, id) > lim

\* __remove_low(matrix, lim, idx) on a normalized table (idx is Python's column 0 or 1)
remove_low_idx(rows, m, lim, idx) ==
    LET cond == {k \in 1..Len(rows) : keeps(m, lim, rows[k][idx + 1])}
    IN [interactions |-> KeepRows(rows, cond),
        count        |-> Len(rows) - Cardinality(cond)]

-----------------------------------------------------------------------------
(* Construction *)

\* labels of the input: positive interactions and others
Labels == {0, 1}

\* the rows of an input file of n columns; with a context column the label is the
\* column of ones the sources append
RowKinds(n) ==
    IF n = 3
    THEN {<<u, i, l>> : u \in RawUsers, i \in RawItems, l \in Labels}
    ELSE {<<u, i, c, 1>> : u \in RawUsers, i \in RawItems, c \in RawContext}

\* the input tables: up to MaxRows rows, one row less with a context column
Tables(n) ==
    UNION {[1..len -> RowKinds(n)] : len \in 0..(IF n = 3 THEN MaxRows ELSE MaxRows - 1)}

Mappings(n) ==
    IF n = 3
    THEN {<<u, i>> : u \in UserMappings, i \in ItemMappings}
    ELSE {<<u, i, c>> : u \in UserMappings, i \in ItemMappings, c \in ContextMappings}

\* Dataset.__init__: a raw table with its label column, idrange None
Init ==
    /\ ncols \in {3, 4}
    /\ interactions \in Tables(ncols)
    /\ idrange = None
    /\ mapping = None
    /\ matrix = NoMatrix
    /\ testset = None
    /\ last = NoCall
    /\ normby = "none"
    /\ ncalls = 0
    /\ pc = "api"
    /\ ci = 0
    /\ cu = 0
    /\ trace = << >>
    /\ file = None
    /\ result = None
    /\ sampling = None

-----------------------------------------------------------------------------
(* Actions: the calls on a Dataset, in any order *)

CanCall == pc = "api" /\ ncalls < MaxCalls

\* every user and item id of the table is an index of the matrix (scipy and numpy
\* raise IndexError beyond the dimension and count a negative index from the end)
IndexesMatrix(rows, size) ==
    \A k \in 1..Len(rows) : valid_index(rows[k][1], size) /\ valid_index(rows[k][2], size)

\* normalize_ids() with no mapping
NormalizeIds ==
    /\ CanCall
    /\ LET r == normalize_ids(interactions, ncols, unique_mapping(interactions, ncols), TRUE) IN
       /\ interactions' = r.interactions
       /\ idrange' = r.idrange
       /\ mapping' = r.mapping
       /\ last' = Call(last, "normalize_ids", interactions, idrange, interactions,
                       <<None, TRUE>>, r.mapping)
    /\ normby' = "auto"
    /\ ncalls' = ncalls + 1
    /\ UNCHANGED <<ncols, matrix, testset, pc, ci, cu,
                 trace, file, result, sampling>>

\* normalize_ids(mapping, remove_missing) with an explicit mapping, which brings a
\* raw table into the id space of another one
NormalizeIdsWith ==
    /\ CanCall
    /\ idrange = None
    /\ \E m \in Mappings(ncols), remove_missing \in BOOLEAN :
       LET r == normalize_ids(interactions, ncols, m, remove_missing) IN
       /\ interactions' = r.interactions
       /\ idrange' = r.idrange
       /\ mapping' = r.mapping
       /\ last' = Call(last, "normalize_ids", interactions, idrange, interactions,
                       <<m, remove_missing>>, r.mapping)
    /\ normby' = "explicit"
    /\ ncalls' = ncalls + 1
    /\ UNCHANGED <<ncols, matrix, testset, pc, ci, cu,
                 trace, file, result, sampling>>

\* denormalize_ids(mapping, remove_missing) with the mapping normalize_ids returned
DenormalizeIds ==
    /\ CanCall
    /\ mapping # None
    /\ \E remove_missing \in BOOLEAN :
       LET r == denormalize_ids(interactions, ncols, mapping, remove_missing) IN
       /\ interactions' = r.interactions
       /\ idrange' = r.idrange
       /\ last' = Call(last, "denormalize_ids", interactions, idrange, interactions,
                       <<mapping, remove_missing>>, None)
    /\ normby' = "none"
    /\ ncalls' = ncalls + 1
    /\ UNCHANGED <<ncols, mapping, matrix, testset, pc, ci, cu,
                 trace, file, result, sampling>>

\* add_negative_sampling(matrix, num)
AddNegativeSampling ==
    /\ CanCall
    /\ \E num \in 0..MaxNum :
       /\ Len(interactions) * (num + 1) <= MaxTable
       /\ IF num <= 0
          THEN /\ interactions' = interactions
               /\ last' = Call(last, "add_negative_sampling", interactions, idrange,
                               interactions, <<matrix.entries, num>>, None)
          ELSE /\ interactions = << >> \/ (idrange # None /\ matrix # NoMatrix)
               /\ \E data \in add_negative_sampling(interactions, idrange,
                                                    matrix.entries, num) :
                  /\ interactions' = data
                  /\ last' = Call(last, "add_negative_sampling", interactions, idrange,
                                  interactions, <<matrix.entries, num>>, None)
    /\ UNCHANGED normby
    /\ ncalls' = ncalls + 1
    /\ UNCHANGED <<idrange, ncols, mapping, matrix, testset, pc, ci, cu,
                 trace, file, result, sampling>>

\* extract_test_dataset(num_user_interactions, min_keep_user_interactions)
ExtractTestDataset ==
    /\ CanCall
    /\ \E num_user_interactions, min_keep_user_interactions \in 0..MaxExtract :
       LET nd == ensure_normalized(interactions, ncols, idrange)
           r  == extract_test_dataset(nd.interactions, ncols, num_user_interactions,
                                      min_keep_user_interactions)
       IN /\ interactions' = r.interactions
          /\ idrange' = nd.idrange
          /\ testset' = [interactions |-> r.testset, idrange |-> nd.idrange]
          /\ last' = Call(last, "extract_test_dataset", interactions, idrange, nd.interactions,
                          <<num_user_interactions, min_keep_user_interactions>>,
                          r.testset)
    /\ normby' = IF idrange = None THEN "auto" ELSE normby
    /\ ncalls' = ncalls + 1
    /\ UNCHANGED <<ncols, mapping, matrix, pc, ci, cu,
                 trace, file, result, sampling>>

\* create_adjacency_matrix()
CreateAdjacencyMatrix ==
    /\ CanCall
    /\ LET nd == ensure_normalized(interactions, ncols, idrange)
           m  == create_adjacency_matrix(nd.interactions, nd.idrange)
       IN /\ IndexesMatrix(nd.interactions, m.size)
          /\ interactions' = nd.interactions
          /\ idrange' = nd.idrange
          /\ matrix' = m
          /\ last' = Call(last, "create_adjacency_matrix", interactions, idrange,
                          nd.interactions, << >>, m)
    /\ normby' = IF idrange = None THEN "auto" ELSE normby
    /\ ncalls' = ncalls + 1
    /\ UNCHANGED <<ncols, mapping, testset, pc, ci, cu,
                 trace, file, result, sampling>>

\* remove_low_users(matrix, lim) and remove_low_items(matrix, lim)
RemoveLowIdx(op, idx) ==
    /\ CanCall
    /\ matrix # NoMatrix
    /\ \E lim \in 0..MaxLim :
       LET nd == ensure_normalized(interactions, ncols, idrange)
           r  == remove_low_idx(nd.interactions, matrix, lim, idx)
       IN /\ IndexesMatrix(nd.interactions, matrix.size)
          /\ interactions' = r.interactions
          /\ idrange' = nd.idrange
          /\ last' = Call(last, op, interactions, idrange, nd.interactions,
                          <<matrix, lim>>, r.count)
    /\ normby' = IF idrange = None THEN "auto" ELSE normby
    /\ ncalls' = ncalls + 1
    /\ UNCHANGED <<ncols, mapping, matrix, testset, pc, ci, cu,
                 trace, file, result, sampling>>

RemoveLowUsers == RemoveLowIdx("remove_low_users", 0)

RemoveLowItems == RemoveLowIdx("remove_low_items", 1)

\* remove_low(matrix, lim): remove_low_users, then remove_low_items, same matrix
RemoveLow ==
    /\ CanCall
    /\ matrix # NoMatrix
    /\ \E lim \in 0..MaxLim :
       LET nd == ensure_normalized(interactions, ncols, idrange)
           ru == remove_low_idx(nd.interactions, matrix, lim, 0)
           ri == remove_low_idx(ru.interactions, matrix, lim, 1)
       IN /\ IndexesMatrix(nd.interactions, matrix.size)
          /\ interactions' = ri.interactions
          /\ idrange' = nd.idrange
          /\ last' = Call(last, "remove_low", interactions, idrange, nd.interactions,
                          <<matrix, lim>>, ru.count + ri.count)
    /\ normby' = IF idrange = None THEN "auto" ELSE normby
    /\ ncalls' = ncalls + 1
    /\ UNCHANGED <<ncols, mapping, matrix, testset, pc, ci, cu,
                 trace, file, result, sampling>>

Next ==
    \/ NormalizeIds
    \/ NormalizeIdsWith
    \/ DenormalizeIds
    \/ AddNegativeSampling
    \/ ExtractTestDataset
    \/ CreateAdjacencyMatrix
    \/ RemoveLowUsers
    \/ RemoveLowItems
    \/ RemoveLow

Spec == Init /\ [][Next]_vars

-----------------------------------------------------------------------------
(* The same calls on tables whose raw ids are already small and shared by the  *)
(* user and item columns                                                       *)

\* raw ids of the users and of the items
ExampleIds == {0, 1}

ExampleTables ==
    UNION {[1..len -> {<<u, i, 1>> : u \in ExampleIds, i \in ExampleIds}] : len \in 0..MaxRows}

\* Dataset.__init__ on such a table
InitExample ==
    /\ ncols = 3
    /\ interactions \in ExampleTables
    /\ idrange = None
    /\ mapping = None
    /\ matrix = NoMatrix
    /\ testset = None
    /\ last = NoCall
    /\ normby = "none"
    /\ ncalls = 0
    /\ pc = "api"
    /\ ci = 0
    /\ cu = 0
    /\ trace = << >>
    /\ file = None
    /\ result = None
    /\ sampling = None

SpecExample == InitExample /\ [][Next]_vars

-----------------------------------------------------------------------------
(* SpotifyDatasetSource.load, statement by statement *)

\* the users and songs of the input file
LoadUsers == {3, 5, 9}
LoadItems == {3, 5, 8, 9}

\* the (user, song) pairs of a file, one row each, sorted by user and song
FilePairs(S) ==
    LET key(p) == p[1] * 10 + p[2]
        order == SortedSeq({key(p) : p \in S})
    IN [k \in 1..Len(order) |-> CHOOSE p \in S : key(p) = order[k]]

\* __load_data: the columns user_id, song_id and, when asked for, previous_song (the
\* song of the user's row before, 0 on the user's first row), then a column of ones
load_data(S, n) ==
    LET pairs == FilePairs(S) IN
    [k \in 1..Len(pairs) |->
        IF n = 3 THEN <<pairs[k][1], pairs[k][2], 1>>
        ELSE <<pairs[k][1], pairs[k][2],
               IF k > 1 /\ pairs[k - 1][1] = pairs[k][1] THEN pairs[k - 1][2] ELSE 0,
               1>>]

\* BaseDatasetSource.__init__, and load called with hyperparameters that ask for
\* the previous_song column (ncols = 4) or for no context column (ncols = 3)
InitLoad ==
    /\ ncols \in {3, 4}
    /\ interactions = None
    /\ idrange = None
    /\ mapping = None
    /\ matrix = NoMatrix
    /\ testset = None
    /\ last = NoCall
    /\ normby = "none"
    /\ ncalls = 0
    /\ pc = "load_data"
    /\ ci = 0
    /\ cu = 0
    /\ trace = << >>
    /\ file = None
    /\ result = None
    /\ sampling = None

\* self.trainset = InteractionDataset(self.__load_data(...))
LoadData ==
    /\ pc = "load_data"
    /\ \E S \in SUBSET (LoadUsers \X LoadItems) :
          interactions' = load_data(S, ncols)
    /\ pc' = "normalize_ids"
    /\ UNCHANGED <<idrange, ncols, mapping, matrix, testset, last, normby, ncalls, ci, cu,
                 trace, file, result, sampling>>

\* mapping = self.trainset.normalize_ids()  (both occurrences)
LoadNormalizeIds ==
    /\ pc \in {"normalize_ids", "normalize_ids_again"}
    /\ LET r == normalize_ids(interactions, ncols, unique_mapping(interactions, ncols), TRUE) IN
       /\ interactions' = r.interactions
       /\ idrange' = r.idrange
       /\ mapping' = r.mapping
       /\ last' = Call(last, "normalize_ids", interactions, idrange, interactions,
                       <<None, TRUE>>, r.mapping)
    /\ normby' = "auto"
    /\ pc' = IF pc = "normalize_ids" THEN "create_adjacency_matrix"
             ELSE "create_adjacency_matrix_again"
    /\ trace' = Append(trace, last')
    /\ UNCHANGED <<ncols, matrix, testset, ncalls, ci, cu,
                 file, result, sampling>>

\* self.matrix = self.trainset.create_adjacency_matrix()  (both occurrences)
LoadCreateAdjacencyMatrix ==
    /\ pc \in {"create_adjacency_matrix", "create_adjacency_matrix_again"}
    /\ LET nd == ensure_normalized(interactions, ncols, idrange)
           m  == create_adjacency_matrix(nd.interactions, nd.idrange)
       IN /\ IndexesMatrix(nd.interactions, m.size)
          /\ interactions' = nd.interactions
          /\ idrange' = nd.idrange
          /\ matrix' = m
          /\ last' = Call(last, "create_adjacency_matrix", interactions, idrange,
                          nd.interactions, << >>, m)
    /\ normby' = IF idrange = None THEN "auto" ELSE normby
    /\ pc' = IF pc = "create_adjacency_matrix" THEN "remove_low_items"
             ELSE "extract_test_dataset"
    /\ trace' = Append(trace, last')
    /\ UNCHANGED <<ncols, mapping, testset, ncalls, ci, cu,
                 file, result, sampling>>

\* ci = self.trainset.remove_low_items(self.matrix, MIN_ITEM_INTERACTIONS)
LoadRemoveLowItems ==
    /\ pc = "remove_low_items"
    /\ LET nd == ensure_normalized(interactions, ncols, idrange)
           r  == remove_low_idx(nd.interactions, matrix, MIN_ITEM_INTERACTIONS, 1)
       IN /\ IndexesMatrix(nd.interactions, matrix.size)
          /\ interactions' = r.interactions
          /\ idrange' = nd.idrange
          /\ ci' = r.count
          /\ last' = Call(last, "remove_low_items", interactions, idrange, nd.interactions,
                          <<matrix, MIN_ITEM_INTERACTIONS>>, r.count)
    /\ normby' = IF idrange = None THEN "auto" ELSE normby
    /\ pc' = "remove_low_users"
    /\ trace' = Append(trace, last')
    /\ UNCHANGED <<ncols, mapping, matrix, testset, ncalls, cu,
                 file, result, sampling>>

\* recalc looking at the users dropped only
recalc_users_only(dropped_items, dropped_users) == dropped_users > 0

\* recalc = cu > 0 or ci > 0
recalc(dropped_items, dropped_users) == dropped_users > 0 \/ dropped_items > 0

\* cu = self.trainset.remove_low_users(self.matrix, MIN_USER_INTERACTIONS)
\* recalc = cu > 0 or ci > 0; if recalc: ...
LoadRemoveLowUsers ==
    /\ pc = "remove_low_users"
    /\ LET nd == ensure_normalized(interactions, ncols, idrange)
           r  == remove_low_idx(nd.interactions, matrix, MIN_USER_INTERACTIONS, 0)
       IN /\ IndexesMatrix(nd.interactions, matrix.size)
          /\ interactions' = r.interactions
          /\ idrange' = nd.idrange
          /\ cu' = r.count
          /\ last' = Call(last, "remove_low_users", interactions, idrange, nd.interactions,
                          <<matrix, MIN_USER_INTERACTIONS>>, r.count)
          /\ pc' = IF recalc(ci, r.count) THEN "denormalize_ids"
                   ELSE "extract_test_dataset"
    /\ normby' = IF idrange = None THEN "auto" ELSE normby
    /\ trace' = Append(trace, last')
    /\ UNCHANGED <<ncols, mapping, matrix, testset, ncalls, ci,
                 file, result, sampling>>

\* self.trainset.denormalize_ids(mapping)
LoadDenormalizeIds ==
    /\ pc = "denormalize_ids"
    /\ LET r == denormalize_ids(interactions, ncols, mapping, TRUE) IN
       /\ interactions' = r.interactions
       /\ idrange' = r.idrange
       /\ last' = Call(last, "denormalize_ids", interactions, idrange, interactions,
                       <<mapping, TRUE>>, None)
    /\ normby' = "none"
    /\ pc' = "normalize_ids_again"
    /\ trace' = Append(trace, last')
    /\ UNCHANGED <<ncols, mapping, matrix, testset, ncalls, ci, cu,
                 file, result, sampling>>

\* self.testset = self.trainset.extract_test_dataset()
LoadExtractTestDataset ==
    /\ pc = "extract_test_dataset"
    /\ LET nd == ensure_normalized(interactions, ncols, idrange)
           r  == extract_test_dataset(nd.interactions, ncols, 1, 1)
       IN /\ interactions' = r.interactions
          /\ idrange' = nd.idrange
          /\ testset' = [interactions |-> r.testset, idrange |-> nd.idrange]
          /\ last' = Call(last, "extract_test_dataset", interactions, idrange,
                          nd.interactions, <<1, 1>>, r.testset)
    /\ normby' = IF idrange = None THEN "auto" ELSE normby
    /\ pc' = "done"
    /\ trace' = Append(trace, last')
    /\ UNCHANGED <<ncols, mapping, matrix, ncalls, ci, cu,
                 file, result, sampling>>

\* the models handed to save_model
Models == {"FactorizationMachine", "GraphFactorizationMachine"}

\* BaseDatasetSource.item_info, which SpotifyDatasetSource.load leaves as it was
item_info == None

\* the record save_model builds and writes
save_model(model, trainset_idrange, src_item_info) ==
    [model |-> model, idrange |-> trainset_idrange, item_info |-> src_item_info]

\* the keys the recommend command reads inside its try block
recommend_keys == {"model", "idrange", "iteminfo"}

\* the try block of recommend: a key the record lacks raises KeyError, which the
\* bare except turns into "failed to load model file"
recommend(data) ==
    IF recommend_keys \subseteq DOMAIN data
    THEN "loaded model"
    ELSE "failed to load model file"

\* save_model(path, model, src) on the loaded source
SaveModel ==
    /\ pc = "done"
    /\ \E model \in Models : file' = save_model(model, idrange, item_info)
    /\ pc' = "saved"
    /\ UNCHANGED <<interactions, idrange, ncols, mapping, matrix, testset, last, normby,
                   ncalls, ci, cu, trace, result, sampling>>

\* the recommend command on the file save_model wrote
Recommend ==
    /\ pc = "saved"
    /\ result' = recommend(file)
    /\ pc' = "recommended"
    /\ UNCHANGED <<interactions, idrange, ncols, mapping, matrix, testset, last, normby,
                   ncalls, ci, cu, trace, file, sampling>>

NextLoad ==
    \/ LoadData
    \/ LoadNormalizeIds
    \/ LoadCreateAdjacencyMatrix
    \/ LoadRemoveLowItems
    \/ LoadRemoveLowUsers
    \/ LoadDenormalizeIds
    \/ LoadExtractTestDataset
    \/ SaveModel
    \/ Recommend

SpecLoad == InitLoad /\ [][NextLoad]_vars

-----------------------------------------------------------------------------
(* add_negative_sampling, draw by draw *)

\* np.repeat(self.__interactions, n, axis=0)
repeat(rows, n) == [j \in 1..(Len(rows) * n) |-> rows[((j - 1) \div n) + 1]]

\* data[1+n*i:n*(i+1), :] = nrows
assign_rows(data, n, i, nrows) ==
    [j \in 1..Len(data) |->
        IF j - 1 >= 1 + n * i /\ j - 1 < n * (i + 1) THEN nrows[j - 1 - n * i] ELSE data[j]]

\* the locals of add_negative_sampling and of the two methods it calls: num, the row
\* index i, the sample index k, the column col being drawn, the value v drawn last
\* (-1 for None), the columns of nrow filled so far, the rows of nrows filled so far,
\* and data
Locals(num, i, k, col, v, nrow, nrows, data) ==
    [num |-> num, i |-> i, k |-> k, col |-> col, v |-> v, nrow |-> nrow, nrows |-> nrows,
     data |-> data]

\* the values a draw can return in some table of the model
SampleIds == 0..(2 * MaxRows - 1)

\* a normalized table, the adjacency matrix built from it, and add_negative_sampling
\* about to be called with that matrix and num
InitSampling ==
    /\ ncols \in {3, 4}
    /\ \E raw \in Tables(ncols), num \in 0..MaxNum :
         \E nd \in {normalize_ids(raw, ncols, unique_mapping(raw, ncols), TRUE)} :
         \E m \in {create_adjacency_matrix(nd.interactions, nd.idrange)} :
            /\ Len(raw) * (num + 1) <= MaxTable
            /\ IndexesMatrix(nd.interactions, m.size)
            /\ interactions = nd.interactions
            /\ idrange = nd.idrange
            /\ mapping = nd.mapping
            /\ matrix = m
            /\ sampling = Locals(num, 0, 0, 1, -1, << >>, << >>, << >>)
    /\ testset = None
    /\ last = NoCall
    /\ normby = "auto"
    /\ ncalls = 0
    /\ pc = "add_negative_sampling"
    /\ ci = 0
    /\ cu = 0
    /\ trace = << >>
    /\ file = None
    /\ result = None

\* add_negative_sampling up to the first draw: the early return, np.repeat, and the
\* loop over the rows, which ends at once on an empty table
SamplingCall ==
    /\ pc = "add_negative_sampling"
    /\ LET num  == sampling.num
           data == repeat(interactions, num + 1)
       IN IF num <= 0
          THEN /\ pc' = "returned"
               /\ last' = Call(last, "add_negative_sampling", interactions, idrange,
                               interactions, <<matrix.entries, num>>, None)
               /\ UNCHANGED <<interactions, sampling>>
          ELSE IF Len(interactions) = 0
          THEN /\ pc' = "returned"
               /\ interactions' = data
               /\ last' = Call(last, "add_negative_sampling", interactions, idrange,
                               interactions, <<matrix.entries, num>>, None)
               /\ UNCHANGED sampling
          ELSE /\ pc' = "randint"
               /\ sampling' = Locals(num, 0, 0, 1, -1, <<interactions[1][1]>>, << >>, data)
               /\ UNCHANGED <<interactions, last>>
    /\ UNCHANGED <<idrange, ncols, mapping, matrix, testset, normby, ncalls, ci, cu,
                   trace, file, result>>

\* while nrow is None or self.__row_comb_in_container(nrow, container), with no
\* candidate ever turned down
nrow_rejected_never(nrow, container) == FALSE

\* while nrow is None or self.__row_comb_in_container(nrow, container)
nrow_rejected(nrow, container) == row_comb_in_container(nrow, container)

\* np.random.randint(minv, maxv) returns v, and the code runs on to the next draw
Draw(v) ==
    LET s    == sampling
        row  == interactions[s.i + 1]
        n    == s.num + 1
        minv == idrange[s.col]
        maxv == idrange[s.col + 1]
    IN
    /\ pc = "randint"
    /\ minv < maxv
    /\ v \in minv..(maxv - 1)
    /\ IF v = row[s.col + 1]
       THEN \* while v is None or v == row[i]: draw again
            /\ sampling' = [s EXCEPT !.v = v]
            /\ UNCHANGED <<interactions, last, pc>>
       ELSE IF s.col < Len(idrange) - 1
       THEN \* nrow[i] = v, next column
            /\ sampling' = [s EXCEPT !.v = -1, !.col = s.col + 1, !.nrow = Append(s.nrow, v)]
            /\ UNCHANGED <<interactions, last, pc>>
       ELSE LET nrow == Append(Append(s.nrow, v), 0) IN
            IF nrow_rejected(nrow, matrix.entries)
            THEN \* get_random_negative_row is called again for the same k
                 /\ sampling' = [s EXCEPT !.v = -1, !.col = 1, !.nrow = <<row[1]>>]
                 /\ UNCHANGED <<interactions, last, pc>>
            ELSE LET nrows == Append(s.nrows, nrow) IN
                 IF s.k + 1 < s.num
                 THEN \* nrows[i] = nrow, next sample of the same row
                      /\ sampling' = [s EXCEPT !.v = -1, !.col = 1, !.nrow = <<row[1]>>,
                                                !.k = s.k + 1, !.nrows = nrows]
                      /\ UNCHANGED <<interactions, last, pc>>
                 ELSE LET data == assign_rows(s.data, n, s.i, nrows) IN
                      IF s.i + 1 < Len(interactions)
                      THEN \* next row of the table
                           /\ sampling' = Locals(s.num, s.i + 1, 0, 1, -1,
                                                  <<interactions[s.i + 2][1]>>, << >>, data)
                           /\ UNCHANGED <<interactions, last, pc>>
                      ELSE \* self.__interactions = data
                           /\ interactions' = data
                           /\ sampling' = Locals(s.num, s.i, s.k, s.col, -1, nrow, nrows, data)
                           /\ last' = Call(last, "add_negative_sampling", interactions,
                                           idrange, interactions,
                                           <<matrix.entries, s.num>>, None)
                           /\ pc' = "returned"
    /\ UNCHANGED <<idrange, ncols, mapping, matrix, testset, normby, ncalls, ci, cu,
                   trace, file, result>>

\* one call of np.random.randint(minv, maxv), which raises ValueError on an empty range
Randint ==
    /\ pc = "randint"
    /\ IF idrange[sampling.col] >= idrange[sampling.col + 1]
       THEN /\ pc' = "error"
            /\ UNCHANGED <<interactions, idrange, ncols, mapping, matrix, testset, last,
                           normby, ncalls, ci, cu, trace, file, result, sampling>>
       ELSE \E v \in SampleIds : Draw(v)

NextSampling ==
    \/ SamplingCall
    \/ Randint

\* the draws are fair: a value that can be drawn infinitely often is drawn
\* infinitely often
FairDraws == \A v \in SampleIds : SF_vars(Draw(v))

\* the call runs on as long as it has a statement to execute
Runs == WF_vars(SamplingCall) /\ WF_vars(Randint)

SpecSampling == InitSampling /\ [][NextSampling]_vars /\ Runs /\ FairDraws

-----------------------------------------------------------------------------
(* Properties *)

\* the raw ids listed in one column's mapping
Listed(colmapping) == {colmapping[k] : k \in 1..Len(colmapping)}

\* the first id of entity column i (1-based): where the previous column's range ends
RangeStart(idr, i) == IF i = 1 THEN 0 ELSE idr[i - 1]

\* every entity value of every row lies in the range its column owns
InOwnRange(rows, idr) ==
    \A k \in 1..Len(rows) : \A i \in 1..Len(idr) :
        RangeStart(idr, i) <= rows[k][i] /\ rows[k][i] < idr[i]

\* no id occurs in two different entity columns
NoCollision(rows, n) ==
    \A i, j \in 1..(n - 1) : i # j => Column(rows, i) \cap Column(rows, j) = {}

\* the number of distinct values of columns 1..i, added up
CumulativeDistinct(rows, i) == SeqSum([j \in 1..i |-> Cardinality(Column(rows, j))])

\* the table got its ids from normalize_ids() and the calls that keep them
Normalized == idrange # None /\ normby = "auto"

\* C1 (as claimed): in every state reached by normalize_ids() without a mapping,
\* add_negative_sampling, remove_low_users / remove_low_items and
\* extract_test_dataset in which idrange is set, every entity value lies in the
\* half-open range of its column, idrange[i] is the cumulative number of distinct
\* values of columns 0..i, and ids of different columns never collide.
\* (The calls extract_test_dataset(0, ...) are left to C6.)
C1_RangesAndDistinctCounts ==
    (Normalized /\ ~(last.op = "extract_test_dataset" /\ last.arg[1] = 0)) =>
        /\ InOwnRange(interactions, idrange)
        /\ \A i \in 1..Len(idrange) : idrange[i] = CumulativeDistinct(interactions, i)
        /\ NoCollision(interactions, ncols)

\* C1 (amended): in every such state every entity value lies in the half-open range
\* of its column and ids of different columns never collide; idrange[i] is the
\* cumulative number of distinct values of columns 0..i of the table as
\* normalize_ids left it, and never less than that number for the present table.
C1_RangesHold ==
    Normalized =>
        /\ InOwnRange(interactions, idrange)
        /\ NoCollision(interactions, ncols)
        /\ \A i \in 1..Len(idrange) : idrange[i] >= CumulativeDistinct(interactions, i)
        /\ (last.op = "normalize_ids" \/ last.preid = None) =>
               \A i \in 1..Len(idrange) :
                   idrange[i] = CumulativeDistinct(
                       IF last.op = "normalize_ids" THEN interactions ELSE last.npre, i)

\* C1 witness: a normalized table lost rows to remove_low_users and still has rows,
\* after which some id of a range is unused
C1_Witness ==
    /\ Normalized
    /\ last.op = "remove_low_users"
    /\ last.ret > 0
    /\ interactions # << >>
    /\ \E i \in 1..Len(idrange) : idrange[i] > CumulativeDistinct(interactions, i)

\* C2: normalize_ids(mapping, remove_missing=True) with an explicit mapping keeps a
\* row if and only if the row's raw user and raw item both occur in the mapping of
\* their column (a context value absent from the mapping never drops a row).
C2_KeepsIffUserAndItemMapped ==
    (last.op = "normalize_ids" /\ last.arg[1] # None /\ last.arg[2] = TRUE) =>
        Len(interactions) =
            Cardinality({k \in 1..Len(last.pre) :
                            /\ last.pre[k][1] \in Listed(last.arg[1][1])
                            /\ last.pre[k][2] \in Listed(last.arg[1][2])})

\* C3: m = normalize_ids() followed by denormalize_ids(m, remove_missing=False) is a
\* round trip: same rows in the same order with their raw entity values and their
\* labels, and idrange is None afterwards.
C3_RoundTrip ==
    [][(/\ last.op = "normalize_ids"
        /\ last.arg[1] = None
        /\ last'.op = "denormalize_ids"
        /\ last'.arg = <<last.ret, FALSE>>) =>
           /\ interactions' = last.pre
           /\ idrange' = None]_vars

\* C3 witness: the round trip was made on a table with a context column and two
\* different rows
C3_Witness ==
    /\ last.op = "denormalize_ids"
    /\ last.prevop = "normalize_ids"
    /\ last.arg = <<unique_mapping(interactions, ncols), FALSE>>
    /\ ncols = 4
    /\ Len(interactions) = 2
    /\ interactions[1] # interactions[2]

\* the number of rows of a table equal to r
Count(rows, r) == Cardinality({k \in 1..Len(rows) : rows[k] = r})

\* two tables hold the same rows the same number of times
SameRows(a, b) ==
    /\ Len(a) = Len(b)
    /\ \A k \in 1..Len(a) : Count(a, a[k]) = Count(b, a[k])

\* add_negative_sampling(container, num) returned with num > 0
Sampled == last.op = "add_negative_sampling" /\ last.arg[2] > 0

\* the row at (1-based) position j after the original row i (1-based) in the result
NegativeOf(i, j) == interactions[(i - 1) * (last.arg[2] + 1) + 1 + j]

\* C4: when add_negative_sampling(container, num), num > 0, returns on a normalized
\* table of N rows, the table has N*(num+1) rows; the row at position i*(num+1) is
\* original row i, and each of the num rows after it has label 0, the user of row
\* i, an item of the item range other than row i's item, and a (user, item) pair
\* that is not in container.
C4_NegativeSampling ==
    Sampled =>
        /\ Len(interactions) = Len(last.pre) * (last.arg[2] + 1)
        /\ \A i \in 1..Len(last.pre) :
            /\ interactions[(i - 1) * (last.arg[2] + 1) + 1] = last.pre[i]
            /\ \A j \in 1..last.arg[2] :
                /\ NegativeOf(i, j)[ncols] = 0
                /\ NegativeOf(i, j)[1] = last.pre[i][1]
                /\ idrange[1] <= NegativeOf(i, j)[2]
                /\ NegativeOf(i, j)[2] < idrange[2]
                /\ NegativeOf(i, j)[2] # last.pre[i][2]
                /\ <<NegativeOf(i, j)[1], NegativeOf(i, j)[2]>> \notin last.arg[1]

\* C4 witness: the rows of two users got two negatives each, checked against a
\* container that is not empty
C4_Witness ==
    /\ Sampled
    /\ last.arg[2] = 2
    /\ Len(last.pre) = 2
    /\ Len(interactions) = 6
    /\ last.arg[1] # {}
    /\ last.pre[1][1] # last.pre[2][1]

\* C5 (as claimed): every negative row keeps the user column and all context
\* columns (columns 2..n-2) of the original row it follows.
C5_ContextKept ==
    Sampled =>
        \A i \in 1..Len(last.pre) : \A j \in 1..last.arg[2] :
            /\ NegativeOf(i, j)[1] = last.pre[i][1]
            /\ \A c \in 3..(ncols - 1) : NegativeOf(i, j)[c] = last.pre[i][c]

\* C5 (amended): every negative row keeps the user column of the original row it
\* follows; every other entity column, the context columns included, is redrawn
\* inside that column's id range to a value other than the original row's.
C5_ContextRedrawn ==
    Sampled =>
        \A i \in 1..Len(last.pre) : \A j \in 1..last.arg[2] :
            /\ NegativeOf(i, j)[1] = last.pre[i][1]
            /\ \A c \in 2..(ncols - 1) :
                /\ idrange[c - 1] <= NegativeOf(i, j)[c]
                /\ NegativeOf(i, j)[c] < idrange[c]
                /\ NegativeOf(i, j)[c] # last.pre[i][c]

\* C5 witness: negatives were added to a table with a context column
C5_Witness ==
    /\ Sampled
    /\ ncols = 4
    /\ Len(last.pre) = 2
    /\ Len(interactions) > 2

\* the positions of user u's positive rows in the table extract_test_dataset worked on
PositiveOf(u) == {k \in 1..Len(last.npre) : last.npre[k][ncols] > 0 /\ last.npre[k][1] = u}

\* the positions the claim expects to move: for each user with at least
\* num_user_interactions + min_keep_user_interactions positive rows, the last
\* num_user_interactions of them
ExpectedMoved ==
    {k \in 1..Len(last.npre) :
        /\ last.npre[k][ncols] > 0
        /\ Cardinality(PositiveOf(last.npre[k][1])) >= last.arg[1] + last.arg[2]
        /\ Cardinality({j \in PositiveOf(last.npre[k][1]) : j > k}) < last.arg[1]}

\* C6: extract_test_dataset(num_user_interactions >= 0, min_keep_user_interactions
\* >= 0) moves, for each user with at least num_user_interactions +
\* min_keep_user_interactions positive rows, exactly that user's last
\* num_user_interactions positive rows into the returned table and nothing else;
\* the returned table has the idrange of the original.
C6_ExtractsLastPositives ==
    last.op = "extract_test_dataset" =>
        /\ interactions = KeepRows(last.npre, (1..Len(last.npre)) \ ExpectedMoved)
        /\ SameRows(testset.interactions, KeepRows(last.npre, ExpectedMoved))
        /\ testset.idrange = idrange

C8_MatrixCoversAllColumns ==
    last.op = "create_adjacency_matrix" => matrix.size = idrange[Len(idrange)]

\* the column sum of the matrix passed to the last remove_low call
Degree(id) == Cardinality({a \in 0..(last.arg[1].size - 1) : <<a, id>> \in last.arg[1].entries})

\* C9: remove_low_users(matrix, lim) keeps exactly the rows whose user has a column
\* sum strictly greater than lim, in their order, and returns the number of rows
\* dropped; remove_low_items does so on the item column; remove_low(matrix, lim)
\* returns the sum of both counts, both passes reading the same matrix.
C9_RemoveLow ==
    /\ last.op = "remove_low_users" =>
        /\ interactions =
               KeepRows(last.npre, {k \in 1..Len(last.npre) :
                                       Degree(last.npre[k][1]) > last.arg[2]})
        /\ last.ret = Len(last.npre) - Len(interactions)
    /\ last.op = "remove_low_items" =>
        /\ interactions =
               KeepRows(last.npre, {k \in 1..Len(last.npre) :
                                       Degree(last.npre[k][2]) > last.arg[2]})
        /\ last.ret = Len(last.npre) - Len(interactions)
    /\ last.op \in {"remove_low_users", "remove_low_items", "remove_low"} =>
        matrix = last.arg[1]
    /\ last.op = "remove_low" =>
        /\ interactions =
               KeepRows(last.npre, {k \in 1..Len(last.npre) :
                                       /\ Degree(last.npre[k][1]) > last.arg[2]
                                       /\ Degree(last.npre[k][2]) > last.arg[2]})
        /\ last.ret = Len(last.npre) - Len(interactions)

\* C9 witness: remove_low_users(matrix, 1) dropped the row of a user of degree 1
\* and kept the rows of a user of degree 2
C9_Witness ==
    /\ last.op = "remove_low_users"
    /\ last.arg[2] = 1
    /\ last.ret = 1
    /\ Len(interactions) = 2
    /\ Degree(interactions[1][1]) = 2
    /\ \E k \in 1..Len(last.npre) : Degree(last.npre[k][1]) = 1

\* C10: when SpotifyDatasetSource.load finishes, the matrix reflects the trainset
\* only: entry (u, i) is 1 if and only if some row of the final trainset has user u
\* and item i; trainset and testset share no row and have the same idrange.
C10_MatrixReflectsTrainset ==
    pc = "done" =>
        /\ \A u \in 0..(idrange[1] - 1) : \A i \in idrange[1]..(idrange[2] - 1) :
               <<u, i>> \in matrix.entries <=>
                   \E k \in 1..Len(interactions) :
                       interactions[k][1] = u /\ interactions[k][2] = i
        /\ \A k \in 1..Len(testset.interactions) :
               Count(interactions, testset.interactions[k]) = 0
        /\ testset.idrange = idrange

-----------------------------------------------------------------------------
(* C11: every record save_model writes holds the keys model, idrange (the       *)
(* trainset's idrange at save time) and item_info, and the recommend command    *)
(* loads every such record: it never takes the "failed to load model file"      *)
(* branch.                                                                      *)
C11_SavedFileLoads ==
    /\ file # None =>
        /\ DOMAIN file = {"model", "idrange", "item_info"}
        /\ file.idrange = idrange
    /\ result # "failed to load model file"

-----------------------------------------------------------------------------
\* the input rows of the example: (user, item, label)
ExampleRows == <<<<0, 0, 1>>, <<0, 1, 1>>, <<1, 0, 1>>>>

\* normalize_ids() has just returned on the example's rows
ExampleNormalized ==
    /\ last.op = "normalize_ids"
    /\ last.arg[1] = None
    /\ last.pre = ExampleRows

\* the rows the example expects
ExampleResult == <<<<0, 2, 1>>, <<0, 3, 1>>, <<1, 2, 1>>>>

(* C12 as stated: on the rows [(0,0,1),(0,1,1),(1,0,1)] normalize_ids() yields  *)
(* idrange [2,5] (2 users in [0,2), 3 items in [2,5)) and the rows (0,2,1),     *)
(* (0,3,1), (1,2,1).                                                            *)
C12_ExampleAsStated ==
    ExampleNormalized =>
        /\ idrange = <<2, 5>>
        /\ interactions = ExampleResult

(* C12 amended: on those rows normalize_ids() yields idrange [2,4] (2 users in  *)
(* [0,2), 2 items in [2,4)) and the rows (0,2,1), (0,3,1), (1,2,1).             *)
C12_Example ==
    ExampleNormalized =>
        /\ idrange = <<2, 4>>
        /\ interactions = ExampleResult
        /\ last.ret = <<<<0, 1>>, <<0, 1>>>>

\* normalize_ids() has returned on the example's rows
C12_Witness ==
    /\ ExampleNormalized
    /\ Len(interactions) = 3
    /\ idrange # None

-----------------------------------------------------------------------------
\* the row has a valid negative: values different from its own in every column after
\* the user's, no pair of which (the user included) is in container
HasNegative(row, idr, container) ==
    \E nrow \in get_random_negative_row(row, idr) : ~row_comb_in_container(nrow, container)

AllHaveNegative(rows, idr, container) ==
    \A k \in 1..Len(rows) : HasNegative(rows[k], idr, container)

(* C13: under fair random draws add_negative_sampling(container, num > 0)       *)
(* eventually returns if and only if every row of the table has a valid         *)
(* negative; if some row has none the call keeps drawing forever, and in no     *)
(* case does it raise an error.                                                 *)
C13_ReturnsIffNegatives ==
    /\ (sampling.num > 0 /\ AllHaveNegative(interactions, idrange, matrix.entries))
           => <>(pc = "returned")
    /\ (sampling.num > 0 /\ ~AllHaveNegative(interactions, idrange, matrix.entries))
           => [](pc \notin {"returned", "error"})
    /\ [](pc # "error")

\* a call with num > 0 has returned on a table of several rows, one of which had a
\* candidate that the container turns down
C13_Witness ==
    /\ pc = "returned"
    /\ sampling.num > 0
    /\ Len(last.pre) >= 2
    /\ \E k \in 1..Len(last.pre) :
          \E nrow \in get_random_negative_row(last.pre[k], idrange) :
             row_comb_in_container(nrow, matrix.entries)

\* a call with num > 0 is drawing for a row that has no valid negative
C13_WitnessStuck ==
    /\ pc = "randint"
    /\ sampling.i > 0
    /\ ~HasNegative(interactions[sampling.i + 1], idrange, matrix.entries)

-----------------------------------------------------------------------------
\* a is the beginning of b
IsPrefix(a, b) == Len(a) <= Len(b) /\ a = SubSeq(b, 1, Len(a))

\* the names of the calls load has made on the trainset
TraceOps == [k \in 1..Len(trace) |-> trace[k].op]

\* load's calls up to the removal of the low users
LoadFirstPass ==
    <<"normalize_ids", "create_adjacency_matrix", "remove_low_items", "remove_low_users">>

\* the second pass
LoadSecondPass == <<"denormalize_ids", "normalize_ids", "create_adjacency_matrix">>

LoadWithoutRecalc == LoadFirstPass \o <<"extract_test_dataset">>

LoadWithRecalc == LoadFirstPass \o LoadSecondPass \o <<"extract_test_dataset">>

\* load has finished
Loaded == pc \in {"done", "saved", "recommended"}

\* the number of ones in column id of the matrix the source holds
FinalDegree(id) ==
    Cardinality({a \in 0..(matrix.size - 1) : <<a, id>> \in matrix.entries})

(* C14: load calls normalize_ids, create_adjacency_matrix,                      *)
(* remove_low_items(lim = 1), remove_low_users(lim = 3); then, if and only if   *)
(* a row was dropped, denormalize_ids(old mapping), normalize_ids() and         *)
(* create_adjacency_matrix, once; then extract_test_dataset.  The removal is    *)
(* never run again (the witness is a finished load whose trainset holds a user  *)
(* of degree 3 or less in the final matrix).                                    *)
C14_LoadOrder ==
    /\ IsPrefix(TraceOps, LoadWithoutRecalc) \/ IsPrefix(TraceOps, LoadWithRecalc)
    /\ Loaded => TraceOps \in {LoadWithoutRecalc, LoadWithRecalc}
    /\ Len(trace) >= 1 => trace[1].arg[1] = None
    /\ Len(trace) >= 3 =>
           /\ trace[3].arg = <<trace[2].ret, 1>>
           /\ trace[3].pre = trace[2].npre
    /\ Len(trace) >= 4 =>
           /\ trace[4].arg = <<trace[2].ret, 3>>
           /\ trace[4].ret + trace[3].ret = Len(trace[3].pre) - Len(interactions)
              \/ Len(trace) > 4
    /\ Len(trace) >= 5 =>
           /\ trace[5].op = "denormalize_ids" <=> Len(trace[5].pre) < Len(trace[3].pre)
           /\ trace[5].op = "denormalize_ids" => trace[5].arg[1] = trace[1].ret
    /\ Len(trace) >= 6 /\ trace[5].op = "denormalize_ids" => trace[6].arg[1] = None
    /\ Loaded => matrix = trace[IF TraceOps = LoadWithRecalc THEN 7 ELSE 2].ret

\* load has finished after a second pass, and its trainset holds a user whose degree
\* in the final matrix is at most MIN_USER_INTERACTIONS, and an item whose degree is
\* at most MIN_ITEM_INTERACTIONS
C14_Witness ==
    /\ pc = "done"
    /\ TraceOps = LoadWithRecalc
    /\ \E k \in 1..Len(interactions) :
          FinalDegree(interactions[k][1]) <= MIN_USER_INTERACTIONS
    /\ \E k \in 1..Len(interactions) :
          FinalDegree(interactions[k][2]) <= MIN_ITEM_INTERACTIONS

\* load has finished without a second pass, no row having been dropped
C14_WitnessWithoutRecalc ==
    /\ pc = "done"
    /\ TraceOps = LoadWithoutRecalc
    /\ Len(interactions) > 0

-----------------------------------------------------------------------------
\* some set of positions of table a whose rows, in order, are table rest, the rows at
\* the other positions being those of table moved, in any order
Partitions(a, rest, moved) ==
    \E keep \in SUBSET (1..Len(a)) :
        /\ rest = KeepRows(a, keep)
        /\ SameRows(moved, KeepRows(a, (1..Len(a)) \ keep))

\* the positive rows of user u in a table
PositiveRows(rows, u) == {k \in 1..Len(rows) : rows[k][ncols] > 0 /\ rows[k][1] = u}

(* C15: for num_user_interactions >= 1 and min_keep_user_interactions >= 0,     *)
(* extract_test_dataset partitions the rows: the remaining table and the        *)
(* returned table together hold the rows of the table before the call, each as *)
(* often as before, the remaining rows keep their relative order, and every     *)
(* user with a row in the returned table keeps at least                         *)
(* min_keep_user_interactions positive rows in the remaining table.             *)
C15_ExtractPartitions ==
    (last.op = "extract_test_dataset" /\ last.arg[1] >= 1) =>
        /\ Len(interactions) + Len(last.ret) = Len(last.npre)
        /\ Partitions(last.npre, interactions, last.ret)
        /\ \A k \in 1..Len(last.ret) :
              Cardinality(PositiveRows(interactions, last.ret[k][1])) >= last.arg[2]
        /\ testset.interactions = last.ret

\* extract_test_dataset(num_user_interactions >= 1, min_keep >= 1) has moved a row
\* out of a table that keeps at least two rows, one of them not positive
C15_Witness ==
    /\ last.op = "extract_test_dataset"
    /\ last.arg[1] >= 1
    /\ last.arg[2] >= 1
    /\ Len(last.ret) >= 1
    /\ Len(interactions) >= 2
    /\ \E k \in 1..Len(interactions) : interactions[k][ncols] <= 0

====
